---- MODULE Spec2Model ----
(***************************************************************************)
(* A model of the ConsoleTetris rules engine: the falling piece            *)
(* (src/src/tetramino.rs), the game state and the next-piece queue         *)
(* (src/src/game.rs) and the bounds predicates (src/src/matrix.rs).        *)
(*                                                                         *)
(* Coordinates: x is the column, y is the row counted upward from the      *)
(* floor (y = 0 is the bottom row, Down is a move by (0, -1)).  A grid's   *)
(* storage row r is reported by get_minos as y = -r, so a piece's local    *)
(* row 0 is its top row.                                                   *)
(***************************************************************************)
EXTENDS Integers, Sequences, FiniteSets, TLC

VARIABLES
    tetrimino,   \* GameState.tetrimino : the Active Piece (a Tetramino record)
    matrix,      \* GameState.matrix    : the Playfield grid, matrix[row][col]
    queue,       \* NextQueue.queue     : look-ahead queue, front first
    bag,         \* NextQueue.bag       : remaining kinds of the current shuffle
    running,     \* GameState.running
    panicked,    \* TRUE once an operation has panicked (index out of bounds, expect)
    drawn,       \* history: the kinds returned by NextQueue::next so far
    locks,       \* history: number of completed next_tetrimino calls
    ops,         \* history: commands applied to the first piece (saturating)
    steps,       \* history: commands and next_tetrimino calls after the first lock
    cwRun,       \* history: clockwise rotations applied, and nothing else, since the
                 \*          first spawn (-1 once anything else has been applied)
    last,        \* history: the last command, whether it changed the piece and the
                 \*          kick offset a rotation applied
    channel,     \* the mpsc channel of start_io_handler: messages in flight, oldest first
    io_pc,       \* the input thread: "read" while in its loop, "stopped" after break
    loop_pc,     \* game_loop: "recv", "tick", "draw" within an iteration, "done" after it
    sent,        \* history: the messages the input thread has sent, in order
    received,    \* history: the messages try_recv has returned, in order
    keys,        \* history: the number of events the input thread has read
    source,      \* the Matrix on which rotated() is called
    result,      \* the Matrix rotated() returned: None before the call, Some(m) after
    viewport,    \* the (vw_width, vw_height) get_matrix_size is called with
    size         \* the outcome of get_matrix_size: None before the call, Some(o) after

\* the variables of the input thread, the channel and the game loop
hostVars == <<channel, io_pc, loop_pc, sent, received, keys>>
\* the variables of a call of Matrix::rotated
gridVars == <<source, result>>
\* the variables of a call of get_matrix_size
sizeVars == <<viewport, size>>

vars == <<tetrimino, matrix, queue, bag, running, panicked, drawn, locks, ops, steps,
          cwRun, last, channel, io_pc, loop_pc, sent, received, keys, source, result, viewport, size>>

---------------------------------------------------------------------------
(* Bounds of the model *)

\* next_tetrimino is called at most this many times in a run
MaxLocks == 2
\* the first next_tetrimino comes within this many commands after the first spawn
MaxOpsBeforeLock == 1
\* at most this many commands and next_tetrimino calls follow the first lock
MaxStepsAfterLock == 1
\* NextQueue::next is called at most this many times in a run of the queue alone
MaxDraws == 15

\* Matrix::rotated is called on grids of at most this many rows and columns
MaxSide == 2

\* the input thread reads at most this many events in a run
MaxKeys == 3

\* get_matrix_size is called with every width up to MaxVwWidth and every height
\* up to MaxVwHeight, and with the extreme viewports
MaxVwWidth == 40
MaxVwHeight == 64

---------------------------------------------------------------------------
(* Program constants *)

MATRIX_WIDTH == 10
MATRIX_HEIGHT == 20
PREVIEW_MATRIX_WIDTH == 6
BOARD_HEIGHT == 20

I_COLOR == 51
J_COLOR == 33
L_COLOR == 208
O_COLOR == 226
S_COLOR == 40
T_COLOR == 128
Z_COLOR == 160

\* Option<Color>: None is the empty set, Some(c) is {c}
None == {}
Some(c) == {c}
Unwrap(opt) == CHOOSE c \in opt : TRUE

\* enum TetraminoType, in declaration order
Kinds == <<"I", "J", "L", "O", "S", "T", "Z">>
KindSet == {Kinds[i] : i \in 1..Len(Kinds)}

\* enum Rotation and `rotation as usize`
Facings == {"North", "East", "South", "West"}
RotationIndex(r) ==
    CASE r = "North" -> 0
      [] r = "East"  -> 1
      [] r = "South" -> 2
      [] r = "West"  -> 3

\* enum RotationDirection
Directions == {"Clockwise", "Counterclockwise"}

\* Rotation::rotated with a wrong clockwise arm: South turns back to East
RotationRotated_south_to_east(r, rotation_direction) ==
    IF rotation_direction = "Clockwise"
    THEN CASE r = "North" -> "East"
           [] r = "East"  -> "South"
           [] r = "South" -> "East"
           [] r = "West"  -> "North"
    ELSE CASE r = "North" -> "West"
           [] r = "East"  -> "North"
           [] r = "South" -> "East"
           [] r = "West"  -> "South"

\* Rotation::rotated
RotationRotated(r, rotation_direction) ==
    IF rotation_direction = "Clockwise"
    THEN CASE r = "North" -> "East"
           [] r = "East"  -> "South"
           [] r = "South" -> "West"
           [] r = "West"  -> "North"
    ELSE CASE r = "North" -> "West"
           [] r = "East"  -> "North"
           [] r = "South" -> "East"
           [] r = "West"  -> "South"

---------------------------------------------------------------------------
(* Grids: Grid<Option<Color>> as a function row -> col -> Option<Color>,    *)
(* both indices zero-based.                                                *)

\* grid![ [..] [..] ] : a grid from its rows
GridOf(rows) ==
    [r \in 0..(Len(rows) - 1) |-> [c \in 0..(Len(rows[1]) - 1) |-> rows[r + 1][c + 1]]]

\* Grid::new(rows, cols) : every cell None
GridNew(rows, cols) == [r \in 0..(rows - 1) |-> [c \in 0..(cols - 1) |-> None]]

GridRows(g) == Cardinality(DOMAIN g)
GridCols(g) == Cardinality(DOMAIN g[0])

\* MinoGridMap::get_minos (TileGridMap::get_tiles): the non-empty cells in
\* row-major order, each as x = col, y = -(row) with its color
get_minos(g) ==
    LET cols == GridCols(g)
        n    == GridRows(g) * cols
        Row(k) == (k - 1) \div cols
        Col(k) == (k - 1) % cols
        some == SelectSeq([k \in 1..n |-> k], LAMBDA k : g[Row(k)][Col(k)] # None)
    IN  [i \in 1..Len(some) |->
            [x |-> Col(some[i]), y |-> -Row(some[i]),
             color |-> Unwrap(g[Row(some[i])][Col(some[i])])]]

\* the color of a kind
KindColor(piece) ==
    CASE piece = "I" -> I_COLOR
      [] piece = "J" -> J_COLOR
      [] piece = "L" -> L_COLOR
      [] piece = "O" -> O_COLOR
      [] piece = "S" -> S_COLOR
      [] piece = "T" -> T_COLOR
      [] piece = "Z" -> Z_COLOR

\* the base (North) shape grid of a kind, Tetramino::new
BaseGrid(piece) ==
    LET c == Some(KindColor(piece))
        n == None
    IN  CASE piece = "I" -> GridOf(<< <<n, n, n, n, n>>,
                                      <<n, n, n, n, n>>,
                                      <<n, c, c, c, c>>,
                                      <<n, n, n, n, n>>,
                                      <<n, n, n, n, n>> >>)
          [] piece = "L" -> GridOf(<< <<n, n, c>>, <<c, c, c>>, <<n, n, n>> >>)
          [] piece = "J" -> GridOf(<< <<c, n, n>>, <<c, c, c>>, <<n, n, n>> >>)
          [] piece = "O" -> GridOf(<< <<n, c, c>>, <<n, c, c>>, <<n, n, n>> >>)
          [] piece = "S" -> GridOf(<< <<n, c, c>>, <<c, c, n>>, <<n, n, n>> >>)
          [] piece = "T" -> GridOf(<< <<n, c, n>>, <<c, c, c>>, <<n, n, n>> >>)
          [] piece = "Z" -> GridOf(<< <<c, c, n>>, <<n, c, c>>, <<n, n, n>> >>)

\* Tetramino::new
TetraminoNew(piece) ==
    [tetramino_type |-> piece,
     tile_grid      |-> BaseGrid(piece),
     rotation       |-> "North",
     x_pos          |-> IF piece = "O" THEN 4 ELSE 3,
     y_pos          |-> BOARD_HEIGHT - 1]

\* Tetramino::get_tiles : the shape's tiles translated by the anchor
get_tiles(t) ==
    LET local == get_minos(t.tile_grid)
    IN  [k \in 1..Len(local) |->
            [x |-> t.x_pos + local[k].x, y |-> t.y_pos + local[k].y,
             color |-> local[k].color]]

---------------------------------------------------------------------------
(* Bounds predicates (macros of matrix.rs) *)

x_position_outside_left_bound(x) == x < 0
\* the right bound off by one: column MATRIX_WIDTH passes
x_position_outside_right_bound_off_by_one(x) == x > MATRIX_WIDTH
x_position_outside_right_bound(x) == x >= MATRIX_WIDTH
x_position_outside_bounds(x) ==
    x_position_outside_left_bound(x) \/ x_position_outside_right_bound(x)
\* a bottom bound that lets every row through
y_position_outside_bottom_bound_no_floor(y) == FALSE
y_position_outside_bottom_bound(y) == y < 0
y_position_outside_top_bound(y) == y >= MATRIX_HEIGHT
y_position_outside_bounds(y) ==
    y_position_outside_top_bound(y) \/ y_position_outside_bottom_bound(y)
\* gameplay bounds with a ceiling, as position_outside_bounds! of constraint.rs
position_outside_bounds_with_ceiling(x, y) ==
    x_position_outside_bounds(x) \/ y_position_outside_bounds(y)
\* gameplay bounds: excluding the top
position_outside_bounds(x, y) ==
    x_position_outside_bounds(x) \/ y_position_outside_bottom_bound(y)
\* render bounds
position_outside_render_bounds(x, y) ==
    x_position_outside_bounds(x) \/ y_position_outside_bounds(y)

---------------------------------------------------------------------------
(* Kick table *)

\* the offset table of a kind (all y-values are inverted), one row per Rotation
offset_table(piece) ==
    CASE piece \in {"J", "L", "S", "T", "Z"} ->
            << << <<0, 0>>, << 0, 0>>, << 0,  0>>, <<0,  0>>, << 0,  0>> >>,
               << <<0, 0>>, << 1, 0>>, << 1,  1>>, <<0, -2>>, << 1, -2>> >>,
               << <<0, 0>>, << 0, 0>>, << 0,  0>>, <<0,  0>>, << 0,  0>> >>,
               << <<0, 0>>, <<-1, 0>>, <<-1,  1>>, <<0, -2>>, <<-1, -2>> >> >>
      [] piece = "I" ->
            << << << 0,  0>>, <<-1,  0>>, << 2,  0>>, <<-1,  0>>, << 2,  0>> >>,
               << <<-1,  0>>, << 0,  0>>, << 0,  0>>, << 0, -1>>, << 0,  2>> >>,
               << <<-1, -1>>, << 1, -1>>, <<-2, -1>>, << 1,  0>>, <<-2,  0>> >>,
               << << 0, -1>>, << 0, -1>>, << 0, -1>>, << 0,  1>>, << 0, -2>> >> >>
      [] piece = "O" ->
            << << <<0, 0>> >>, << <<0, 1>> >>, << <<-1, 1>> >>, << <<-1, 0>> >> >>

\* get_kick_offset_data with the subtraction turned round: target minus origin
get_kick_offset_data_target_minus_origin(piece, origin_rotation, target_rotation) ==
    LET table  == offset_table(piece)
        origin == table[RotationIndex(origin_rotation) + 1]
        target == table[RotationIndex(target_rotation) + 1]
        n      == IF Len(origin) <= Len(target) THEN Len(origin) ELSE Len(target)
    IN  [i \in 1..n |-> <<target[i][1] - origin[i][1], target[i][2] - origin[i][2]>>]

\* get_kick_offset_data that leaves out the last column of the table
get_kick_offset_data_without_last(piece, origin_rotation, target_rotation) ==
    LET table  == offset_table(piece)
        origin == table[RotationIndex(origin_rotation) + 1]
        target == table[RotationIndex(target_rotation) + 1]
        n      == IF Len(origin) <= Len(target) THEN Len(origin) ELSE Len(target)
    IN  [i \in 1..(n - 1) |-> <<origin[i][1] - target[i][1], origin[i][2] - target[i][2]>>]

\* get_kick_offset_data that always starts from the North row of the table
get_kick_offset_data_from_north(piece, origin_rotation, target_rotation) ==
    LET table  == offset_table(piece)
        origin == table[1]
        target == table[RotationIndex(target_rotation) + 1]
        n      == IF Len(origin) <= Len(target) THEN Len(origin) ELSE Len(target)
    IN  [i \in 1..n |-> <<origin[i][1] - target[i][1], origin[i][2] - target[i][2]>>]

\* TetraminoType::get_kick_offset_data : origin row minus target row, column by column
get_kick_offset_data(piece, origin_rotation, target_rotation) ==
    LET table  == offset_table(piece)
        origin == table[RotationIndex(origin_rotation) + 1]
        target == table[RotationIndex(target_rotation) + 1]
        n      == IF Len(origin) <= Len(target) THEN Len(origin) ELSE Len(target)
    IN  [i \in 1..n |-> <<origin[i][1] - target[i][1], origin[i][2] - target[i][2]>>]

---------------------------------------------------------------------------
(* The Active Piece *)

\* board_tile_grid.get_tiles().iter().any(|board_tile| x == board_tile.x && y == board_tile.y)
\* get_minos reports the cell at (row, col) as the tile x = col, y = -(row), so a
\* tile at (x, y) exists exactly when the cell at row -y, column x is not None
board_collision(board_tile_grid, x, y) ==
    /\ (-y) \in DOMAIN board_tile_grid
    /\ x \in DOMAIN board_tile_grid[-y]
    /\ board_tile_grid[-y][x] # None

\* Tetramino::position_invalid : None when the position is valid, otherwise
\* Some(the piece's own tiles that are out of bounds or on a board tile)
position_invalid(t, x_offset, y_offset, board_tile_grid) ==
    LET Invalid(tile) ==
            LET x == tile.x + x_offset
                y == tile.y + y_offset
            IN  position_outside_bounds(x, y) \/ board_collision(board_tile_grid, x, y)
        collision == SelectSeq(get_tiles(t), Invalid)
    IN  IF collision = <<>> THEN None ELSE Some(collision)

\* move_position that adds the x delta before the collision test and never takes it back
move_position_partial(t, x, y, board_tile_grid) ==
    IF position_invalid(t, x, y, board_tile_grid) # None
    THEN [t |-> [t EXCEPT !.x_pos = t.x_pos + x], ret |-> FALSE]
    ELSE [t |-> [t EXCEPT !.x_pos = t.x_pos + x, !.y_pos = t.y_pos + y], ret |-> TRUE]

\* Tetramino::move_position : the piece afterwards and the returned bool
move_position(t, x, y, board_tile_grid) ==
    IF position_invalid(t, x, y, board_tile_grid) # None
    THEN [t |-> t, ret |-> FALSE]
    ELSE [t |-> [t EXCEPT !.x_pos = t.x_pos + x, !.y_pos = t.y_pos + y], ret |-> TRUE]

\* the rotated grid built in Tetramino::rotate : the tile at (row, col) goes to
\* [col][rows - row - 1] clockwise and to [cols - col - 1][row] counter-clockwise
rotated_tile_grid(g, rotation_direction) ==
    LET rows == GridRows(g)
        cols == GridCols(g)
    IN  [r \in 0..(cols - 1) |-> [c \in 0..(rows - 1) |->
            IF rotation_direction = "Clockwise"
            THEN g[rows - c - 1][r]
            ELSE g[c][cols - r - 1]]]

\* the loop over the kick offsets without its break: every later offset that
\* move_position accepts is applied on top of the first
RECURSIVE try_kick_offsets_no_break(_, _, _, _)
try_kick_offsets_no_break(t, offsets, i, board_tile_grid) ==
    IF i > Len(offsets)
    THEN [t |-> t, ret |-> FALSE, kick |-> 0]
    ELSE LET m    == move_position(t, offsets[i][1], offsets[i][2], board_tile_grid)
             rest == try_kick_offsets_no_break(m.t, offsets, i + 1, board_tile_grid)
         IN  IF m.ret
             THEN [t |-> rest.t, ret |-> TRUE, kick |-> i]
             ELSE rest

\* the loop over the kick offsets in Tetramino::rotate : the first offset that
\* move_position accepts ends it (kick is the position of that offset in the
\* list, counted from 1, and 0 when every offset was refused)
RECURSIVE try_kick_offsets(_, _, _, _)
try_kick_offsets(t, offsets, i, board_tile_grid) ==
    IF i > Len(offsets)
    THEN [t |-> t, ret |-> FALSE, kick |-> 0]
    ELSE LET m == move_position(t, offsets[i][1], offsets[i][2], board_tile_grid)
         IN  IF m.ret
             THEN [t |-> m.t, ret |-> TRUE, kick |-> i]
             ELSE try_kick_offsets(t, offsets, i + 1, board_tile_grid)

\* Tetramino::rotate without the restore of tile_grid and rotation on failure
rotate_kick_no_restore(t, rotation_direction, board_tile_grid) ==
    LET turned  == [t EXCEPT !.tile_grid = rotated_tile_grid(t.tile_grid, rotation_direction),
                             !.rotation  = RotationRotated(t.rotation, rotation_direction)]
        offsets == get_kick_offset_data(t.tetramino_type, t.rotation, turned.rotation)
        tried   == try_kick_offsets(turned, offsets, 1, board_tile_grid)
    IN  [t |-> tried.t, kick |-> tried.kick]

\* Tetramino::rotate : the piece afterwards, and the kick offset that was applied
rotate_kick(t, rotation_direction, board_tile_grid) ==
    LET original_tiles    == t.tile_grid
        original_rotation == t.rotation
        turned  == [t EXCEPT !.tile_grid = rotated_tile_grid(t.tile_grid, rotation_direction),
                             !.rotation  = RotationRotated(t.rotation, rotation_direction)]
        offsets == get_kick_offset_data(t.tetramino_type, original_rotation, turned.rotation)
        tried   == try_kick_offsets(turned, offsets, 1, board_tile_grid)
    IN  IF tried.ret
        THEN [t |-> tried.t, kick |-> tried.kick]
        ELSE [t    |-> [tried.t EXCEPT !.tile_grid = original_tiles,
                                       !.rotation  = original_rotation],
              kick |-> 0]

rotate(t, rotation_direction, board_tile_grid) ==
    rotate_kick(t, rotation_direction, board_tile_grid).t

---------------------------------------------------------------------------
(* The Matrix of src/src/matrix.rs: a grid that carries its size and Facing *)

\* Matrix::new : rows x cols cells, all None
MatrixNew(rows, cols, rotation) ==
    [rows |-> rows, cols |-> cols, matrix |-> GridNew(rows, cols), rotation |-> rotation]

\* Matrix::size : (rows, cols)
MatrixSize(self) == <<self.rows, self.cols>>

\* impl From<Grid<Option<Color>>> for Matrix
MatrixFrom(value) ==
    [rows |-> GridRows(value), cols |-> GridCols(value), matrix |-> value,
     rotation |-> "North"]

\* the two nested loops of Matrix::rotated from the k-th cell in row-major
\* order on: the cell at (row, col) is written to [col][rows - row - 1]
\* clockwise and to [cols - col - 1][row] counter-clockwise
RECURSIVE rotated_cells(_, _, _, _)
rotated_cells(self, direction, rotated, k) ==
    LET rows == MatrixSize(self)[1]
        cols == MatrixSize(self)[2]
    IN  IF k >= rows * cols
        THEN rotated
        ELSE LET row == k \div cols
                 col == k % cols
                 r   == IF direction = "Clockwise" THEN col ELSE cols - col - 1
                 c   == IF direction = "Clockwise" THEN rows - row - 1 ELSE row
             IN  rotated_cells(self, direction,
                               [rotated EXCEPT !.matrix[r][c] = self.matrix[row][col]],
                               k + 1)

\* Matrix::rotated with the cells mapped as for the opposite direction
MatrixRotated_cells_turned_back(self, direction) ==
    rotated_cells(self,
                  IF direction = "Clockwise" THEN "Counterclockwise" ELSE "Clockwise",
                  MatrixNew(MatrixSize(self)[2], MatrixSize(self)[1],
                            RotationRotated(self.rotation, direction)),
                  0)

\* Matrix::rotated : a new Matrix, the receiver is only read
MatrixRotated(self, direction) ==
    rotated_cells(self, direction,
                  MatrixNew(MatrixSize(self)[2], MatrixSize(self)[1],
                            RotationRotated(self.rotation, direction)),
                  0)

---------------------------------------------------------------------------
(* The layout arithmetic of src/src/matrix.rs, on u16 *)

\* the value a u16 holds after an operation whose exact result is x
wrap_u16(x) == x % (2 ^ 16)

\* the exact result x of an operation does not fit a u16
overflows_u16(x) == x < 0 \/ x >= 2 ^ 16

\* get_matrix_size : the returned Option, and whether the call panics.
\* overflow_checks is the build: with it (debug) an overflowing u16 operation
\* panics, without it (release) the result wraps
get_matrix_size(vw_width, vw_height, overflow_checks) ==
    LET required_width  == MATRIX_WIDTH * 2 + PREVIEW_MATRIX_WIDTH * 2 + 4
        required_height == MATRIX_HEIGHT + 2
    IN  IF vw_width < required_width \/ vw_height < required_height
        THEN [ret |-> None, panic |-> FALSE]
        ELSE LET canvas_height   == vw_height - 2
                 board_height    == canvas_height - (canvas_height % MATRIX_HEIGHT)
                 board_product   == board_height * MATRIX_WIDTH
                 board_doubled   == (wrap_u16(board_product) \div MATRIX_HEIGHT) * 2
                 board_width     == wrap_u16(board_doubled)
                 preview_product == board_height * PREVIEW_MATRIX_WIDTH
                 preview_doubled == (wrap_u16(preview_product) \div MATRIX_HEIGHT) * 2
                 preview_width   == wrap_u16(preview_doubled)
                 less_board      == vw_width - board_width
                 less_preview    == wrap_u16(less_board) - preview_width
                 margin          == wrap_u16(less_preview) \div 2
                 width_out       == board_width + 2
                 height_out      == board_height + 2
                 preview_out     == preview_width + 2
                 overflow        == \E x \in {board_product, board_doubled, preview_product,
                                              preview_doubled, less_board, less_preview,
                                              width_out, height_out, preview_out} :
                                        overflows_u16(x)
             IN  IF overflow_checks /\ overflow
                 THEN [ret |-> None, panic |-> TRUE]
                 ELSE [ret   |-> Some(<<wrap_u16(width_out), wrap_u16(height_out),
                                        wrap_u16(preview_out), margin>>),
                       panic |-> FALSE]

---------------------------------------------------------------------------
(* The next-piece queue *)

\* Tetrimino::all : every kind once
all == Kinds

\* the permutation with i and j exchanged
Swap(i, j) == [k \in 1..Len(all) |-> IF k = i THEN j ELSE IF k = j THEN i ELSE k]

\* outcomes of the random source for one shuffle of the bag : the identity and
\* every exchange of two places
Shuffles == {Swap(i, j) : i, j \in 1..Len(all)}
\* the outcomes drawn on when a game is constructed : every kind can come first
GameShuffles == {Swap(i, Len(all)) : i \in 1..Len(all)}
\* the outcomes drawn on when a game refills the bag
RefillShuffles == {Swap(1, 1), Swap(1, Len(all))}

\* a refill test that fires one kind early, when a single kind is left
bag_nearly_empty(b) == Len(b) <= 1

\* self.bag.is_empty() : the test that decides a refill
bag_is_empty(b) == b = <<>>

\* the random source is consulted only when the bag is refilled: the outcomes
\* to consider for one next_bag on bag b, drawn from the set S
ShuffleOutcomes(b, S) == IF bag_is_empty(b) THEN S ELSE {Swap(1, 1)}

\* Vec::shuffle with the random source producing `perm`
shuffle(v, perm) == [k \in 1..Len(v) |-> v[perm[k]]]

\* next_bag that reads the back of the bag without removing it
next_bag_no_pop(nq, perm) ==
    LET filled == IF nq.bag = <<>> THEN shuffle(all, perm) ELSE nq.bag
    IN  [nq |-> [nq EXCEPT !.bag = filled], val |-> filled[Len(filled)], panic |-> FALSE]

\* next_bag without the refill: an empty bag stays empty
next_bag_no_refill(nq, perm) ==
    IF nq.bag = <<>>
    THEN [nq |-> nq, val |-> "none", panic |-> TRUE]
    ELSE [nq    |-> [nq EXCEPT !.bag = SubSeq(nq.bag, 1, Len(nq.bag) - 1)],
          val   |-> nq.bag[Len(nq.bag)],
          panic |-> FALSE]

\* NextQueue::next_bag : refill and shuffle when empty, then pop the back.
\* `panic` is the failed expect("Bag was empty!")
next_bag(nq, perm) ==
    LET filled == IF bag_is_empty(nq.bag) THEN shuffle(all, perm) ELSE nq.bag
    IN  IF filled = <<>>
        THEN [nq |-> [nq EXCEPT !.bag = filled], val |-> "none", panic |-> TRUE]
        ELSE [nq    |-> [nq EXCEPT !.bag = SubSeq(filled, 1, Len(filled) - 1)],
              val   |-> filled[Len(filled)],
              panic |-> FALSE]

\* NextQueue::get_queue : a copy of the look-ahead queue, front first
get_queue(nq) == nq.queue

\* next that takes the bag kind but never pushes it onto the queue
next_no_push(nq, perm) ==
    LET b == next_bag(nq, perm)
    IN  IF b.panic
        THEN [nq |-> b.nq, val |-> "none", panic |-> TRUE]
        ELSE IF b.nq.queue = <<>>
        THEN [nq |-> b.nq, val |-> "none", panic |-> TRUE]
        ELSE [nq    |-> [b.nq EXCEPT !.queue = Tail(b.nq.queue)],
              val   |-> Head(b.nq.queue),
              panic |-> FALSE]

\* next that pops the back of the queue instead of the front
next_pop_back(nq, perm) ==
    LET b      == next_bag(nq, perm)
        pushed == Append(b.nq.queue, b.val)
    IN  IF b.panic
        THEN [nq |-> b.nq, val |-> "none", panic |-> TRUE]
        ELSE [nq    |-> [b.nq EXCEPT !.queue = SubSeq(pushed, 1, Len(pushed) - 1)],
              val   |-> pushed[Len(pushed)],
              panic |-> FALSE]

\* NextQueue::next : move a bag kind to the back of the queue, pop the front.
\* `panic` is a failed expect
next(nq, perm) ==
    LET b      == next_bag(nq, perm)
        pushed == Append(b.nq.queue, b.val)
    IN  IF b.panic
        THEN [nq |-> b.nq, val |-> "none", panic |-> TRUE]
        ELSE IF pushed = <<>>
        THEN [nq |-> [b.nq EXCEPT !.queue = pushed], val |-> "none", panic |-> TRUE]
        ELSE [nq    |-> [b.nq EXCEPT !.queue = Tail(pushed)],
              val   |-> Head(pushed),
              panic |-> FALSE]

\* NextQueue::default : six next_bag results seed the queue
RECURSIVE seed_queue(_, _, _)
seed_queue(nq, perm, n) ==
    IF n = 0
    THEN nq
    ELSE LET b == next_bag(nq, perm)
         IN  seed_queue([b.nq EXCEPT !.queue = Append(b.nq.queue, b.val)], perm, n - 1)

\* NextQueue::default that draws 7 kinds into the queue
NextQueueDefault_seeds_seven(perm) == seed_queue([queue |-> <<>>, bag |-> <<>>], perm, 7)

\* NextQueue::default : 6 draws from the bag into the queue
NextQueueDefault(perm) == seed_queue([queue |-> <<>>, bag |-> <<>>], perm, 6)

---------------------------------------------------------------------------
(* The game *)

\* new_matrix!
new_matrix == GridNew(MATRIX_HEIGHT, MATRIX_WIDTH)

\* the locking loop with the two indices exchanged: matrix[x][y] = Some(color)
RECURSIVE lock_minos_transposed(_, _, _)
lock_minos_transposed(m, minos, i) ==
    IF i > Len(minos)
    THEN [matrix |-> m, panic |-> FALSE]
    ELSE LET mino == minos[i]
         IN  IF mino.x \notin DOMAIN m \/ mino.y \notin DOMAIN m[mino.x]
             THEN [matrix |-> m, panic |-> TRUE]
             ELSE lock_minos_transposed([m EXCEPT ![mino.x][mino.y] = Some(mino.color)],
                                        minos, i + 1)

\* the locking loop that empties a cell it finds occupied
RECURSIVE lock_minos_toggle(_, _, _)
lock_minos_toggle(m, minos, i) ==
    IF i > Len(minos)
    THEN [matrix |-> m, panic |-> FALSE]
    ELSE LET mino == minos[i]
         IN  IF mino.y \notin DOMAIN m \/ mino.x \notin DOMAIN m[mino.y]
             THEN [matrix |-> m, panic |-> TRUE]
             ELSE lock_minos_toggle(
                      [m EXCEPT ![mino.y][mino.x] =
                          IF m[mino.y][mino.x] # None THEN None ELSE Some(mino.color)],
                      minos, i + 1)

\* the locking loop of GameState::next_tetrimino : matrix[y][x] = Some(color)
\* for each mino in order; an index outside the grid panics
RECURSIVE lock_minos(_, _, _)
lock_minos(m, minos, i) ==
    IF i > Len(minos)
    THEN [matrix |-> m, panic |-> FALSE]
    ELSE LET mino == minos[i]
         IN  IF mino.y \notin DOMAIN m \/ mino.x \notin DOMAIN m[mino.y]
             THEN [matrix |-> m, panic |-> TRUE]
             ELSE lock_minos([m EXCEPT ![mino.y][mino.x] = Some(mino.color)], minos, i + 1)

\* enum Movement : <<"Left">>, <<"Right">>, <<"Down">>, <<"Drop">>, <<"Rotate", direction>>
Movements == {<<"Left">>, <<"Right">>, <<"Down">>, <<"Drop">>} \cup {<<"Rotate", d>> : d \in Directions}

\* apply_movement whose Drop arm moves the piece one row down
apply_movement_kick_drop_moves(t, movement, m) ==
    CASE movement[1] = "Rotate" -> rotate_kick(t, movement[2], m)
      [] movement[1] = "Left"   -> [t |-> move_position(t, -1, 0, m).t, kick |-> 0]
      [] movement[1] = "Right"  -> [t |-> move_position(t, 1, 0, m).t, kick |-> 0]
      [] movement[1] = "Down"   -> [t |-> move_position(t, 0, -1, m).t, kick |-> 0]
      [] movement[1] = "Drop"   -> [t |-> move_position(t, 0, -1, m).t, kick |-> 0]

\* apply_movement whose Down arm moves by (0, 1), away from row 0
apply_movement_kick_down_is_up(t, movement, m) ==
    CASE movement[1] = "Rotate" -> rotate_kick(t, movement[2], m)
      [] movement[1] = "Left"   -> [t |-> move_position(t, -1, 0, m).t, kick |-> 0]
      [] movement[1] = "Right"  -> [t |-> move_position(t, 1, 0, m).t, kick |-> 0]
      [] movement[1] = "Down"   -> [t |-> move_position(t, 0, 1, m).t, kick |-> 0]
      [] movement[1] = "Drop"   -> [t |-> t, kick |-> 0]

\* GameState::apply_movement : the piece afterwards, and the kick offset a
\* rotation applied
apply_movement_kick(t, movement, m) ==
    CASE movement[1] = "Rotate" -> rotate_kick(t, movement[2], m)
      [] movement[1] = "Left"   -> [t |-> move_position(t, -1, 0, m).t, kick |-> 0]
      [] movement[1] = "Right"  -> [t |-> move_position(t, 1, 0, m).t, kick |-> 0]
      [] movement[1] = "Down"   -> [t |-> move_position(t, 0, -1, m).t, kick |-> 0]
      [] movement[1] = "Drop"   -> [t |-> t, kick |-> 0]

apply_movement(t, movement, m) == apply_movement_kick(t, movement, m).t

\* what GameState::apply_movement returns: the function has no return type, each
\* arm drops the bool of move_position with its `;` and the Drop arm is a bare
\* `return`, so no bool reaches the caller (None; Some(b) would be a returned b)
apply_movement_ret(t, movement, m) == None

---------------------------------------------------------------------------
(* The game as a state machine: GameState::default, then one command of    *)
(* the game loop at a time.                                                *)

\* no input thread, channel or loop: the operations are called directly
NoHost ==
    /\ channel = <<>>
    /\ io_pc = "none"
    /\ loop_pc = "none"
    /\ sent = <<>>
    /\ received = <<>>
    /\ keys = 0

\* no call of Matrix::rotated
NoGrid ==
    /\ source = "none"
    /\ result = None

\* no call of get_matrix_size
NoSize ==
    /\ viewport = <<>>
    /\ size = None

\* GameState::default with the random source producing `perm`
Init ==
    \E perm \in GameShuffles :
        LET n == next(NextQueueDefault(perm), perm)
        IN  /\ tetrimino = TetraminoNew(n.val)
            /\ queue = n.nq.queue
            /\ bag = n.nq.bag
            /\ matrix = new_matrix
            /\ running = TRUE
            /\ panicked = FALSE
            /\ drawn = <<n.val>>
            /\ locks = 0
            /\ ops = 0
            /\ steps = 0
            /\ cwRun = 0
            /\ last = [op |-> <<"New">>, changed |-> FALSE, kick |-> 0]
            /\ NoHost
            /\ NoGrid
            /\ NoSize

\* a command handler whose Drop also stamps the piece into the Playfield
Command_drop_stamps(movement) ==
    /\ running /\ ~panicked
    /\ (locks > 0 => steps < MaxStepsAfterLock)
    /\ \E applied \in {apply_movement_kick(tetrimino, movement, matrix)} :
           /\ tetrimino' = applied.t
           /\ last' = [op      |-> movement,
                       changed |-> applied.t # tetrimino,
                       kick    |-> applied.kick]
    /\ matrix' = IF movement = <<"Drop">>
                 THEN lock_minos(matrix, get_tiles(tetrimino), 1).matrix
                 ELSE matrix
    /\ ops' = IF locks = 0 /\ ops <= MaxOpsBeforeLock THEN ops + 1 ELSE ops
    /\ steps' = IF locks = 0 THEN steps ELSE steps + 1
    /\ cwRun' = IF movement = <<"Rotate", "Clockwise">> /\ cwRun \in 0..3
                THEN cwRun + 1 ELSE -1
    /\ UNCHANGED <<queue, bag, running, panicked, drawn, locks>>
    /\ UNCHANGED <<hostVars, gridVars, sizeVars>>

\* Message::Move(movement) : GameState::apply_movement
Command(movement) ==
    /\ running /\ ~panicked
    /\ (locks > 0 => steps < MaxStepsAfterLock)
    /\ \E applied \in {apply_movement_kick(tetrimino, movement, matrix)} :
           /\ tetrimino' = applied.t
           /\ last' = [op      |-> movement,
                       changed |-> applied.t # tetrimino,
                       kick    |-> applied.kick]
    /\ ops' = IF locks = 0 /\ ops <= MaxOpsBeforeLock THEN ops + 1 ELSE ops
    /\ steps' = IF locks = 0 THEN steps ELSE steps + 1
    /\ cwRun' = IF movement = <<"Rotate", "Clockwise">> /\ cwRun \in 0..3
                THEN cwRun + 1 ELSE -1
    /\ UNCHANGED <<matrix, queue, bag, running, panicked, drawn, locks>>
    /\ UNCHANGED <<hostVars, gridVars, sizeVars>>

MoveLeft == Command(<<"Left">>)
MoveRight == Command(<<"Right">>)
MoveDown == Command(<<"Down">>)
HardDrop == Command(<<"Drop">>)
RotateClockwise == Command(<<"Rotate", "Clockwise">>)
RotateCounterclockwise == Command(<<"Rotate", "Counterclockwise">>)

\* Message::NewTetrimino : GameState::next_tetrimino, the random source
\* producing `perm` if the bag is refilled
NextTetrimino ==
    /\ running /\ ~panicked
    /\ locks < MaxLocks
    /\ IF locks = 0 THEN ops <= MaxOpsBeforeLock ELSE steps < MaxStepsAfterLock
    /\ steps' = IF locks = 0 THEN steps ELSE steps + 1
    /\ \E perm \in ShuffleOutcomes(bag, RefillShuffles) :
        LET l == lock_minos(matrix, get_tiles(tetrimino), 1)
            n == next([queue |-> queue, bag |-> bag], perm)
        IN  /\ matrix' = l.matrix
            /\ IF l.panic \/ n.panic
               THEN /\ panicked' = TRUE
                    /\ IF l.panic
                       THEN UNCHANGED <<queue, bag>>
                       ELSE queue' = n.nq.queue /\ bag' = n.nq.bag
                    /\ UNCHANGED <<tetrimino, drawn, locks>>
               ELSE /\ tetrimino' = TetraminoNew(n.val)
                    /\ queue' = n.nq.queue
                    /\ bag' = n.nq.bag
                    /\ drawn' = Append(drawn, n.val)
                    /\ locks' = locks + 1
                    /\ UNCHANGED panicked
    /\ cwRun' = -1
    /\ last' = [op |-> <<"NewTetrimino">>, changed |-> tetrimino' # tetrimino, kick |-> 0]
    /\ UNCHANGED <<running, ops>>
    /\ UNCHANGED <<hostVars, gridVars, sizeVars>>

Next ==
    \/ MoveLeft
    \/ MoveRight
    \/ MoveDown
    \/ HardDrop
    \/ RotateClockwise
    \/ RotateCounterclockwise
    \/ NextTetrimino

Spec == Init /\ [][Next]_vars

---------------------------------------------------------------------------
(* The next-piece queue alone: NextQueue::default, then NextQueue::next.   *)

InitSeq ==
    \E perm \in Shuffles :
        LET nq == NextQueueDefault(perm)
        IN  /\ queue = nq.queue
            /\ bag = nq.bag
            /\ drawn = <<>>
            /\ panicked = FALSE
            /\ tetrimino = "none"
            /\ matrix = "none"
            /\ running = FALSE
            /\ locks = 0
            /\ ops = 0
            /\ steps = 0
            /\ cwRun = -1
            /\ last = [op |-> <<"New">>, changed |-> FALSE, kick |-> 0]
            /\ NoHost
            /\ NoGrid
            /\ NoSize

\* NextQueue::next with the random source producing `perm` if the bag is refilled
DrawNext ==
    /\ ~panicked
    /\ Len(drawn) < MaxDraws
    /\ \E perm \in ShuffleOutcomes(bag, Shuffles) :
        LET n == next([queue |-> queue, bag |-> bag], perm)
        IN  /\ queue' = n.nq.queue
            /\ bag' = n.nq.bag
            /\ panicked' = n.panic
            /\ drawn' = IF n.panic THEN drawn ELSE Append(drawn, n.val)
    /\ UNCHANGED <<tetrimino, matrix, running, locks, ops, steps, cwRun, last>>
    /\ UNCHANGED <<hostVars, gridVars, sizeVars>>

NextSeq == DrawNext

SpecSeq == InitSeq /\ [][NextSeq]_vars

---------------------------------------------------------------------------
(* Matrix::rotated alone: a Matrix of any size up to MaxSide, any Facing    *)
(* and any occupancy, then one call of rotated().                          *)

\* no game: the variables of the game hold no value
NoGame ==
    /\ tetrimino = "none"
    /\ matrix = "none"
    /\ queue = <<>>
    /\ bag = <<>>
    /\ running = FALSE
    /\ panicked = FALSE
    /\ drawn = <<>>
    /\ locks = 0
    /\ ops = 0
    /\ steps = 0
    /\ cwRun = -1

\* the matrices rotated() is called on
Matrices ==
    UNION {[rows : {r}, cols : {c},
            matrix : [0..(r - 1) -> [0..(c - 1) -> {None, Some(I_COLOR)}]],
            rotation : Facings] : <<r, c>> \in (1..MaxSide) \X (1..MaxSide)}

InitRot ==
    /\ source \in Matrices
    /\ result = None
    /\ last = [op |-> <<"New">>, changed |-> FALSE, kick |-> 0]
    /\ NoGame
    /\ NoHost
    /\ NoSize

\* let rotated = source.rotated(direction)
Rotated(direction) ==
    /\ result = None
    /\ result' = Some(MatrixRotated(source, direction))
    /\ last' = [op |-> <<"Rotated", direction>>, changed |-> FALSE, kick |-> 0]
    /\ UNCHANGED <<source, hostVars, sizeVars>>
    /\ UNCHANGED <<tetrimino, matrix, queue, bag, running, panicked, drawn, locks, ops,
                   steps, cwRun>>

RotatedClockwise == Rotated("Clockwise")
RotatedCounterclockwise == Rotated("Counterclockwise")

NextRot ==
    \/ RotatedClockwise
    \/ RotatedCounterclockwise

SpecRot == InitRot /\ [][NextRot]_vars

---------------------------------------------------------------------------
(* The host: the input thread of start_io_handler, its channel, and         *)
(* game_loop consuming it.                                                  *)

\* the events event::read() can return, by the arm of the match they take
\* ("other" is every key without an arm, every non-key event and every error)
Keys == {"q", "n", "z", "Up", "Left", "Right", "Down", "Enter", "other"}

\* the match of start_io_handler for a key other than 'q': the message to send,
\* or None where the arm is `continue`
key_message(key) ==
    CASE key = "n"     -> Some(<<"NewTetrimino">>)
      [] key = "z"     -> Some(<<"Move", <<"Rotate", "Counterclockwise">>>>)
      [] key = "Up"    -> Some(<<"Move", <<"Rotate", "Clockwise">>>>)
      [] key = "Left"  -> Some(<<"Move", <<"Left">>>>)
      [] key = "Right" -> Some(<<"Move", <<"Right">>>>)
      [] key = "Down"  -> Some(<<"Move", <<"Down">>>>)
      [] key = "Enter" -> Some(<<"Move", <<"Drop">>>>)
      [] OTHER         -> None

\* Sender::send : the message joins the channel behind those in flight
send(ch, msg) == Append(ch, msg)

\* a receive that hands out the newest message in flight
try_recv_newest(ch) ==
    IF ch = <<>>
    THEN [val |-> None, ch |-> ch]
    ELSE [val |-> Some(ch[Len(ch)]), ch |-> SubSeq(ch, 1, Len(ch) - 1)]

\* a receive that leaves the message it hands out in the channel
try_recv_peek(ch) ==
    IF ch = <<>>
    THEN [val |-> None, ch |-> ch]
    ELSE [val |-> Some(Head(ch)), ch |-> ch]

\* Receiver::try_recv : the oldest message in flight is taken out, and Err (None)
\* when there is none
try_recv(ch) ==
    IF ch = <<>>
    THEN [val |-> None, ch |-> ch]
    ELSE [val |-> Some(Head(ch)), ch |-> Tail(ch)]

\* GameState::default, start_io_handler() and the loop about to receive
InitHost ==
    /\ \E perm \in GameShuffles :
          LET n == next(NextQueueDefault(perm), perm)
          IN  /\ tetrimino = TetraminoNew(n.val)
              /\ queue = n.nq.queue
              /\ bag = n.nq.bag
              /\ drawn = <<n.val>>
    /\ matrix = new_matrix
    /\ running = TRUE
    /\ panicked = FALSE
    /\ locks = 0
    /\ ops = 0
    /\ steps = 0
    /\ cwRun = 0
    /\ last = [op |-> <<"New">>, changed |-> FALSE, kick |-> 0]
    /\ channel = <<>>
    /\ io_pc = "read"
    /\ loop_pc = "recv"
    /\ sent = <<>>
    /\ received = <<>>
    /\ keys = 0
    /\ NoGrid
    /\ NoSize

\* the state of the game: what GameState owns
gameVars == <<tetrimino, matrix, queue, bag, running, drawn, locks, last>>

\* the input thread reads 'q': it sends QuitGame and breaks out of its loop
ReadQuit ==
    /\ io_pc = "read" /\ loop_pc # "done" /\ keys < MaxKeys
    /\ keys' = keys + 1
    /\ channel' = send(channel, <<"QuitGame">>)
    /\ sent' = Append(sent, <<"QuitGame">>)
    /\ io_pc' = "stopped"
    /\ UNCHANGED <<loop_pc, received, gameVars, panicked, ops, steps, cwRun, gridVars, sizeVars>>

\* the input thread reads a key that has a message: it sends the message
ReadCommand ==
    /\ io_pc = "read" /\ loop_pc # "done" /\ keys < MaxKeys
    /\ \E key \in Keys \ {"q"} :
          /\ key_message(key) # None
          /\ channel' = send(channel, Unwrap(key_message(key)))
          /\ sent' = Append(sent, Unwrap(key_message(key)))
    /\ keys' = keys + 1
    /\ UNCHANGED <<io_pc, loop_pc, received, gameVars, panicked, ops, steps, cwRun,
                   gridVars, sizeVars>>

\* the input thread reads anything else: `continue`
ReadOther ==
    /\ io_pc = "read" /\ loop_pc # "done" /\ keys < MaxKeys
    /\ \E key \in Keys \ {"q"} : key_message(key) = None
    /\ keys' = keys + 1
    /\ UNCHANGED <<channel, sent, io_pc, loop_pc, received, gameVars, panicked, ops,
                   steps, cwRun, gridVars, sizeVars>>

\* io_rx.try_recv() is Err(_): nothing is applied
RecvNothing ==
    /\ loop_pc = "recv"
    /\ try_recv(channel).val = None
    /\ loop_pc' = "tick"
    /\ UNCHANGED <<channel, io_pc, sent, received, keys, gameVars, panicked, ops, steps,
                   cwRun, gridVars, sizeVars>>

\* a loop that takes QuitGame out of the channel and carries on
RecvQuit_carries_on ==
    /\ loop_pc = "recv"
    /\ try_recv(channel).val = Some(<<"QuitGame">>)
    /\ channel' = try_recv(channel).ch
    /\ received' = Append(received, <<"QuitGame">>)
    /\ loop_pc' = "tick"
    /\ UNCHANGED <<io_pc, sent, keys, gameVars, panicked, ops, steps, cwRun, gridVars, sizeVars>>

\* io_rx.try_recv() is Ok(Message::QuitGame): break
RecvQuit ==
    /\ loop_pc = "recv"
    /\ try_recv(channel).val = Some(<<"QuitGame">>)
    /\ channel' = try_recv(channel).ch
    /\ received' = Append(received, <<"QuitGame">>)
    /\ loop_pc' = "done"
    /\ UNCHANGED <<io_pc, sent, keys, gameVars, panicked, ops, steps, cwRun, gridVars, sizeVars>>

\* io_rx.try_recv() is Ok(Message::Move(control)): apply_movement(control)
RecvMove ==
    /\ loop_pc = "recv"
    /\ try_recv(channel).val # None
    /\ \E v \in try_recv(channel).val :
          /\ v[1] = "Move"
          /\ received' = Append(received, v)
          /\ \E applied \in {apply_movement_kick(tetrimino, v[2], matrix)} :
                /\ tetrimino' = applied.t
                /\ last' = [op      |-> v[2],
                            changed |-> applied.t # tetrimino,
                            kick    |-> applied.kick]
    /\ channel' = try_recv(channel).ch
    /\ loop_pc' = "tick"
    /\ UNCHANGED <<matrix, queue, bag, running, drawn, locks, panicked>>
    /\ UNCHANGED <<io_pc, sent, keys, ops, steps, cwRun, gridVars, sizeVars>>

\* io_rx.try_recv() is Ok(Message::NewTetrimino): next_tetrimino, the random
\* source producing `perm` if the bag is refilled; a panic ends the loop
RecvNewTetrimino ==
    /\ loop_pc = "recv"
    /\ try_recv(channel).val = Some(<<"NewTetrimino">>)
    /\ channel' = try_recv(channel).ch
    /\ received' = Append(received, <<"NewTetrimino">>)
    /\ \E perm \in ShuffleOutcomes(bag, RefillShuffles) :
        LET l == lock_minos(matrix, get_tiles(tetrimino), 1)
            n == next([queue |-> queue, bag |-> bag], perm)
        IN  /\ matrix' = l.matrix
            /\ IF l.panic \/ n.panic
               THEN /\ panicked' = TRUE
                    /\ loop_pc' = "done"
                    /\ IF l.panic
                       THEN UNCHANGED <<queue, bag>>
                       ELSE queue' = n.nq.queue /\ bag' = n.nq.bag
                    /\ UNCHANGED <<tetrimino, drawn, locks>>
               ELSE /\ tetrimino' = TetraminoNew(n.val)
                    /\ queue' = n.nq.queue
                    /\ bag' = n.nq.bag
                    /\ drawn' = Append(drawn, n.val)
                    /\ locks' = locks + 1
                    /\ loop_pc' = "tick"
                    /\ UNCHANGED panicked
    /\ last' = [op |-> <<"NewTetrimino">>, changed |-> tetrimino' # tetrimino, kick |-> 0]
    /\ UNCHANGED <<running, io_pc, sent, keys, ops, steps, cwRun, gridVars, sizeVars>>

\* gamestate.tick() returns true: on to the render pass
TickContinues ==
    /\ loop_pc = "tick"
    /\ loop_pc' = "draw"
    /\ UNCHANGED <<channel, io_pc, sent, received, keys, gameVars, panicked, ops, steps,
                   cwRun, gridVars, sizeVars>>

\* gamestate.tick() returns false: break
TickEndsGame ==
    /\ loop_pc = "tick"
    /\ loop_pc' = "done"
    /\ UNCHANGED <<channel, io_pc, sent, received, keys, gameVars, panicked, ops, steps,
                   cwRun, gridVars, sizeVars>>

\* terminal.draw(..) is Ok: the render pass ends the iteration
DrawOk ==
    /\ loop_pc = "draw"
    /\ loop_pc' = "recv"
    /\ UNCHANGED <<channel, io_pc, sent, received, keys, gameVars, panicked, ops, steps,
                   cwRun, gridVars, sizeVars>>

\* terminal.draw(..) is Err: `?` returns from game_loop
DrawErr ==
    /\ loop_pc = "draw"
    /\ loop_pc' = "done"
    /\ UNCHANGED <<channel, io_pc, sent, received, keys, gameVars, panicked, ops, steps,
                   cwRun, gridVars, sizeVars>>

\* a step of the input thread
InputStep ==
    \/ ReadQuit
    \/ ReadCommand
    \/ ReadOther

\* a step of game_loop
LoopStep ==
    \/ RecvNothing
    \/ RecvQuit
    \/ RecvMove
    \/ RecvNewTetrimino
    \/ TickContinues
    \/ TickEndsGame
    \/ DrawOk
    \/ DrawErr

NextHost ==
    \/ InputStep
    \/ LoopStep

SpecHost == InitHost /\ [][NextHost]_vars

\* a step of game_loop, told by its position alone: every step of game_loop
\* moves loop_pc, nothing else does, and game_loop has a step to take wherever
\* it has not ended
LoopAdvances ==
    /\ loop_pc \in {"recv", "tick", "draw"}
    /\ loop_pc' \in {"recv", "tick", "draw", "done"}
    /\ loop_pc' # loop_pc

\* the main thread runs: game_loop takes its next step whenever it has one
\* (try_recv does not block, tick and draw return)
SpecHostFair == SpecHost /\ WF_loop_pc(LoopAdvances)

---------------------------------------------------------------------------
(* get_matrix_size alone: a viewport, then one call.                        *)

\* the widths and heights of the viewports: a range from nothing to past the
\* minimum, the width of a wide terminal and the largest u16
ViewWidths == (0..MaxVwWidth) \cup {200, 2 ^ 16 - 1}
ViewHeights == (0..MaxVwHeight) \cup {2 ^ 16 - 1}

InitSize ==
    /\ viewport \in ViewWidths \X ViewHeights
    /\ size = None
    /\ last = [op |-> <<"New">>, changed |-> FALSE, kick |-> 0]
    /\ NoGame
    /\ NoHost
    /\ NoGrid

\* get_matrix_size(vw_width, vw_height) in a build with or without overflow
\* checks
GetMatrixSize(overflow_checks) ==
    /\ size = None
    /\ size' = Some(get_matrix_size(viewport[1], viewport[2], overflow_checks))
    /\ last' = [op |-> <<"get_matrix_size", overflow_checks>>, changed |-> FALSE,
                kick |-> 0]
    /\ UNCHANGED <<viewport, hostVars, gridVars>>
    /\ UNCHANGED <<tetrimino, matrix, queue, bag, running, panicked, drawn, locks, ops,
                   steps, cwRun>>

GetMatrixSizeDebug == GetMatrixSize(TRUE)
GetMatrixSizeRelease == GetMatrixSize(FALSE)

NextSize ==
    \/ GetMatrixSizeDebug
    \/ GetMatrixSizeRelease

SpecSize == InitSize /\ [][NextSize]_vars

---------------------------------------------------------------------------
(* Vocabulary of the properties *)

\* the cells <<col, row>> the piece occupies in the field: the cell at local
\* (r, c) of the shape grid lies at column x_pos + c, row y_pos - r
AbsCells(t) ==
    {<<t.x_pos + c, t.y_pos - r>> :
        <<r, c>> \in {rc \in (DOMAIN t.tile_grid) \X (DOMAIN t.tile_grid[0]) :
                        t.tile_grid[rc[1]][rc[2]] # None}}

Translated(cells, dcol, drow) == {<<cell[1] + dcol, cell[2] + drow>> : cell \in cells}

\* the cells <<col, row>> of the Playfield grid that are occupied
FieldCells(m) == {cr \in (0..(MATRIX_WIDTH - 1)) \X (0..(MATRIX_HEIGHT - 1)) : m[cr[2]][cr[1]] # None}

\* a cell outside the gameplay bounds: no left, right or bottom overflow, no ceiling
OutsideGameplay(cell) == cell[1] < 0 \/ cell[1] >= 10 \/ cell[2] < 0

\* the cell <<col, row>> is an occupied cell of the Playfield grid
FieldOccupied(m, cell) ==
    /\ cell[2] \in DOMAIN m
    /\ cell[1] \in DOMAIN m[cell[2]]
    /\ m[cell[2]][cell[1]] # None

\* the deltas the program passes to try_move for a piece of this kind: those of
\* Left, Right and Down and every kick offset between adjacent facings
DeltasOf ==
    [piece \in KindSet |->
        {<<-1, 0>>, <<1, 0>>, <<0, -1>>} \cup
        UNION {LET offsets == get_kick_offset_data(piece, f, RotationRotated(f, dir))
               IN  {offsets[i] : i \in 1..Len(offsets)} : f \in Facings, dir \in Directions}]
Deltas(piece) == DeltasOf[piece]

\* the piece with its shape turned and its Facing advanced, at the same anchor
Turned(t, dir) ==
    [t EXCEPT !.tile_grid = rotated_tile_grid(t.tile_grid, dir),
              !.rotation  = RotationRotated(t.rotation, dir)]

\* the kick candidates of a rotation of the piece
Candidates(t, dir) ==
    get_kick_offset_data(t.tetramino_type, t.rotation, RotationRotated(t.rotation, dir))

\* the freshly spawned piece of a kind: catalog shape, Facing North, column 3
\* (4 for O), top row 19
Spawned(piece) ==
    [tetramino_type |-> piece,
     tile_grid      |-> BaseGrid(piece),
     rotation       |-> "North",
     x_pos          |-> IF piece = "O" THEN 4 ELSE 3,
     y_pos          |-> 19]

\* the piece moved by delta and otherwise untouched
Shifted(t, d) == [t EXCEPT !.x_pos = t.x_pos + d[1], !.y_pos = t.y_pos + d[2]]

\* C1: try_move is all-or-nothing: when would_collide reports an offending cell
\* for the delta, try_move returns false and the piece is unchanged; otherwise it
\* returns true and the anchor is exactly anchor + delta
C1_TryMoveAllOrNothing ==
    \A d \in Deltas(tetrimino.tetramino_type) :
        LET m == move_position(tetrimino, d[1], d[2], matrix)
        IN  IF position_invalid(tetrimino, d[1], d[2], matrix) # None
            THEN m.ret = FALSE /\ m.t = tetrimino
            ELSE m.ret = TRUE /\ m.t = Shifted(tetrimino, d)

\* a Left command has just been refused, and Left is still refused
C1_Witness ==
    /\ last.op = <<"Left">> /\ ~last.changed
    /\ position_invalid(tetrimino, -1, 0, matrix) # None

\* C2: a translation that would put an occupied cell of the piece at a column
\* < 0, a column >= 10 or a row < 0 is refused and leaves the anchor unchanged
C2_OutOfBoundsMoveRefused ==
    \A d \in Deltas(tetrimino.tetramino_type) :
        (\E cell \in Translated(AbsCells(tetrimino), d[1], d[2]) : OutsideGameplay(cell))
        => LET m == move_position(tetrimino, d[1], d[2], matrix)
           IN  m.ret = FALSE /\ m.t.x_pos = tetrimino.x_pos /\ m.t.y_pos = tetrimino.y_pos

\* a Down command has just been refused by a piece standing on the floor
C2_Witness ==
    /\ last.op = <<"Down">> /\ ~last.changed
    /\ \E cell \in AbsCells(tetrimino) : cell[2] = 0

\* C3: a failed try_move and a failed try_rotate (every kick candidate collides)
\* leave anchor, shape grid and Facing as they were, and a rotation never leaves
\* the turned shape or the advanced Facing behind without the other
C3_FailedCallChangesNothing ==
    /\ \A d \in Deltas(tetrimino.tetramino_type) :
        LET m == move_position(tetrimino, d[1], d[2], matrix)
        IN  m.ret = FALSE => m.t = tetrimino
    /\ \A dir \in Directions :
        LET turned  == Turned(tetrimino, dir)
            offsets == Candidates(tetrimino, dir)
            r       == rotate(tetrimino, dir, matrix)
        IN  /\ (\A i \in 1..Len(offsets) :
                    position_invalid(turned, offsets[i][1], offsets[i][2], matrix) # None)
               => r = tetrimino
            /\ \/ r = tetrimino
               \/ r.tile_grid = turned.tile_grid /\ r.rotation = turned.rotation

\* a rotation has just been refused, and it is still refused
C3_Witness ==
    /\ last.op[1] = "Rotate" /\ ~last.changed
    /\ rotate(tetrimino, last.op[2], matrix) = tetrimino

\* C4: a rotation with a non-colliding kick candidate commits the first such
\* candidate in table order and nothing more: the piece afterwards is the turned
\* piece (rotated shape, advanced Facing) moved by exactly that candidate
C4_FirstFreeKickIsApplied ==
    \A dir \in Directions :
        LET turned  == Turned(tetrimino, dir)
            offsets == Candidates(tetrimino, dir)
            Free(i) == position_invalid(turned, offsets[i][1], offsets[i][2], matrix) = None
            free    == {i \in 1..Len(offsets) : Free(i)}
        IN  free # {} =>
                LET first == CHOOSE i \in free : \A j \in free : i <= j
                IN  rotate(tetrimino, dir, matrix) = Shifted(turned, offsets[first])

\* a rotation has just been applied with candidate 2 (the third of the list),
\* which is not a null offset
C4_Witness ==
    /\ last.op[1] = "Rotate" /\ last.changed /\ last.kick = 3

Field == (0..9) \X (0..19)

C8_StampNeverFails ==
    [][last'.op = <<"NewTetrimino">> =>
        /\ ~panicked'
        /\ locks' = locks + 1
        /\ FieldCells(matrix') = FieldCells(matrix) \cup (AbsCells(tetrimino) \cap Field)]_vars

\* next_tetrimino has panicked on a piece with a cell in row 20, leaving the
\* piece unlocked and not replaced
C8_Witness ==
    /\ last.op = <<"NewTetrimino">> /\ panicked
    /\ \E cell \in AbsCells(tetrimino) : cell[2] >= 20

\* C9: bag fairness: for every k, draws 7k+1 to 7k+7 of a freshly constructed
\* queue are the seven kinds, each exactly once
C9_BagFairness ==
    /\ ~panicked
    /\ \A k \in 0..(Len(drawn) \div 7) :
        Len(drawn) >= 7 * k + 7 =>
            /\ {drawn[i] : i \in (7 * k + 1)..(7 * k + 7)} = {"I", "J", "L", "O", "S", "T", "Z"}
            /\ \A i, j \in (7 * k + 1)..(7 * k + 7) : drawn[i] = drawn[j] => i = j

\* two whole bags have been drawn, and they came in different orders
C9_Witness ==
    /\ Len(drawn) = 14
    /\ SubSeq(drawn, 1, 7) # SubSeq(drawn, 8, 14)

\* C10: drought bound: between two consecutive draws of the same kind there are
\* at most 12 draws of other kinds
C10_DroughtBound ==
    \A i, j \in 1..Len(drawn) :
        (/\ i < j
         /\ drawn[i] = drawn[j]
         /\ \A h \in (i + 1)..(j - 1) : drawn[h] # drawn[i])
        => j - i - 1 <= 12

\* a kind has come back after exactly 12 draws of other kinds
C10_Witness ==
    \E i \in 1..Len(drawn) :
        /\ i + 13 <= Len(drawn)
        /\ drawn[i] = drawn[i + 13]
        /\ \A h \in (i + 1)..(i + 12) : drawn[h] # drawn[i]

\* C11: flood bound: no kind is drawn three times in a row
C11_FloodBound ==
    \A i \in 1..Len(drawn) :
        i + 2 <= Len(drawn) => ~(drawn[i] = drawn[i + 1] /\ drawn[i + 1] = drawn[i + 2])

\* the last kind of one bag has come again as the first of the next
C11_Witness ==
    Len(drawn) >= 8 /\ drawn[7] = drawn[8]

\* C12: the look-ahead queue holds exactly 6 kinds after construction and after
\* every draw, so the first chunk of 6 that the preview asks for is the whole queue
C12_QueueHoldsSix ==
    LET window == get_queue([queue |-> queue, bag |-> bag])
    IN  /\ Len(window) = 6
        /\ \A perm \in ShuffleOutcomes(bag, Shuffles) :
            Len(get_queue(next([queue |-> queue, bag |-> bag], perm).nq)) = 6

\* draws have been made through a refill of the bag, and the queue is full
C12_Witness ==
    Len(drawn) = 9 /\ Len(bag) = 6 /\ Len(queue) = 6

\* the bag as next_bag sees it after its refill step: the seven kinds in some
\* order when it was empty, the bag itself otherwise
Refilled(b) == IF b = <<>> THEN {"I", "J", "L", "O", "S", "T", "Z"} ELSE {b[i] : i \in 1..Len(b)}

\* C13: the look-ahead window is first-in first-out: a draw returns the front of
\* the queue, and the queue afterwards is the old queue without its front,
\* followed by one kind taken out of the bag; so the kinds drawn so far followed
\* by the window only ever grow at the end, and the window is the next 6 draws
C13_WindowIsFifo ==
    [][drawn' # drawn =>
        /\ drawn' = Append(drawn, Head(queue))
        /\ \E kind \in Refilled(bag) :
            /\ queue' = Append(Tail(queue), kind)
            /\ {bag'[i] : i \in 1..Len(bag')} = Refilled(bag) \ {kind}
            /\ Len(bag') = Cardinality(Refilled(bag)) - 1
        /\ SubSeq(drawn' \o queue', 1, Len(drawn) + Len(queue)) = drawn \o queue]_vars

\* seven draws have been made: every kind of the window of the construction has
\* come out and the window holds six kinds that entered it since
C13_Witness ==
    Len(drawn) = 7 /\ Len(queue) = 6 /\ ~panicked

\* C14: under-flow is unreachable: no draw finds the bag empty after the refill
\* step or the queue empty at the pop
C14_NoUnderflow ==
    /\ ~panicked
    /\ \A perm \in ShuffleOutcomes(bag, Shuffles) :
        /\ ~next_bag([queue |-> queue, bag |-> bag], perm).panic
        /\ ~next([queue |-> queue, bag |-> bag], perm).panic

\* after some draws the bag is empty again, so the next draw refills it
C14_Witness ==
    Len(drawn) >= 8 /\ bag = <<>> /\ ~panicked

\* C15: would_collide reports no collision exactly when no cell of the piece,
\* translated by the delta, fails the gameplay bounds or lies on an occupied
\* Playfield cell, and otherwise reports a list that holds every such cell
C15_WouldCollideIff ==
    \A d \in {<<0, 0>>, <<-1, 0>>, <<1, 0>>, <<0, -1>>} :
        LET Offending(tile) ==
                LET cell == <<tile.x + d[1], tile.y + d[2]>>
                IN  OutsideGameplay(cell) \/ FieldOccupied(matrix, cell)
            offending == SelectSeq(get_tiles(tetrimino), Offending)
            reported  == position_invalid(tetrimino, d[1], d[2], matrix)
        IN  IF offending = <<>>
            THEN reported = None
            ELSE /\ reported # None
                 /\ \A i \in 1..Len(offending) :
                        \E j \in 1..Len(Unwrap(reported)) : Unwrap(reported)[j] = offending[i]

\* the piece has a cell on an occupied Playfield cell and position_invalid(0, 0)
\* reports no collision
C15_Witness ==
    /\ locks >= 1 /\ ~panicked
    /\ \E cell \in AbsCells(tetrimino) : FieldOccupied(matrix, cell)
    /\ position_invalid(tetrimino, 0, 0, matrix) = None

C18_OffsetsAreRowDifferences ==
    LET piece  == tetrimino.tetramino_type
        origin == tetrimino.rotation
        table  == offset_table(piece)
        from   == table[RotationIndex(origin) + 1]
    IN  /\ \A target \in Facings :
            LET to      == table[RotationIndex(target) + 1]
                offsets == get_kick_offset_data(piece, origin, target)
            IN  /\ Len(offsets) <= 5
                /\ Len(offsets) = Len(from)
                /\ \A i \in 1..Len(offsets) :
                    /\ offsets[i][1] = from[i][1] - to[i][1]
                    /\ offsets[i][2] = from[i][2] - to[i][2]
        /\ piece \in {"J", "L", "S", "T", "Z"} => table = offset_table("T")
        /\ piece = "I" => table # offset_table("T") /\ Len(from) = 5
        /\ piece = "O" => \A r \in 1..Len(table) : Len(table[r]) = 1

\* the I piece has just been turned to face South, with the offsets of its own table
C18_Witness ==
    /\ last.op[1] = "Rotate" /\ last.changed
    /\ tetrimino.tetramino_type = "I" /\ tetrimino.rotation = "South"

\* C19: movement never writes the Playfield: a Left, Right, Down, Rotate or Drop
\* command, accepted or refused, leaves every Playfield cell and the queue and
\* bag unchanged, and only next_tetrimino changes a Playfield cell
C19_MovementLeavesPlayfield ==
    [][/\ last'.op[1] \in {"Left", "Right", "Down", "Rotate", "Drop"} =>
            matrix' = matrix /\ queue' = queue /\ bag' = bag
       /\ matrix' # matrix => last'.op = <<"NewTetrimino">>]_vars

\* a command has just moved the piece over a Playfield that holds a locked piece
C19_Witness ==
    /\ last.op = <<"Left">> /\ last.changed
    /\ locks = 1 /\ FieldCells(matrix) # {}

\* C20: the Playfield only grows and is never resized: the grid stays 20 rows by
\* 10 columns, and a cell that is occupied stays occupied in every later state
C20_PlayfieldOnlyGrows ==
    [][/\ DOMAIN matrix' = 0..19
       /\ \A r \in DOMAIN matrix' : DOMAIN matrix'[r] = 0..9
       /\ \A r \in DOMAIN matrix : \A c \in DOMAIN matrix[r] :
            matrix[r][c] # None => matrix'[r][c] # None]_vars

\* two pieces have been locked and the second was stamped over cells the first
\* had occupied
C20_Witness ==
    /\ locks = 2 /\ ~panicked
    /\ Cardinality(FieldCells(matrix)) < 8

\* the Facing one step on in a direction: North, East, South, West and round
\* again clockwise, the reverse counter-clockwise
FacingAfter(f, dir) ==
    IF dir = "Clockwise"
    THEN CASE f = "North" -> "East" [] f = "East" -> "South"
           [] f = "South" -> "West" [] f = "West" -> "North"
    ELSE CASE f = "North" -> "West" [] f = "West" -> "South"
           [] f = "South" -> "East" [] f = "East" -> "North"

\* C21: rotated(direction) on a rows x cols grid returns a cols x rows grid in
\* which the cell that was at (row, col) is found at (col, rows - row - 1) for
\* clockwise and at (cols - col - 1, row) for counter-clockwise, with the Facing
\* advanced one step in that direction and the source grid untouched; the
\* rotation of the Active Piece's shape maps the cells in the same way
C21_RotatedMapsCells ==
    /\ [](result # None =>
            LET dir     == last.op[2]
                rows    == source.rows
                cols    == source.cols
                rotated == Unwrap(result)
            IN  /\ rotated.rows = cols /\ rotated.cols = rows
                /\ DOMAIN rotated.matrix = 0..(cols - 1)
                /\ \A r \in DOMAIN rotated.matrix : DOMAIN rotated.matrix[r] = 0..(rows - 1)
                /\ \A row \in 0..(rows - 1) : \A col \in 0..(cols - 1) :
                      IF dir = "Clockwise"
                      THEN rotated.matrix[col][rows - row - 1] = source.matrix[row][col]
                      ELSE rotated.matrix[cols - col - 1][row] = source.matrix[row][col]
                /\ rotated.rotation = FacingAfter(source.rotation, dir)
                /\ rotated_tile_grid(source.matrix, dir) = rotated.matrix)
    /\ [][source' = source]_vars

\* a grid of 1 row and 2 columns with one occupied cell has been rotated
\* counter-clockwise
C21_Witness ==
    /\ result # None
    /\ last.op = <<"Rotated", "Counterclockwise">>
    /\ source.rows = 1 /\ source.cols = 2
    /\ source.matrix[0][0] # None /\ source.matrix[0][1] = None

\* C22: commands are consumed from the channel in the order the input thread
\* sent them, each exactly once; the loop takes at most one message per
\* iteration (a non-blocking receive, then tick, then one render pass); and only
\* the loop's receive step ever changes the state of the game
C22_OneCommandPerIteration ==
    /\ [](sent = received \o channel)
    /\ [][/\ Len(received') <= Len(received) + 1
          /\ received' # received => loop_pc = "recv" /\ loop_pc' \in {"tick", "done"}
          /\ loop_pc' # loop_pc =>
                \/ loop_pc = "recv" /\ loop_pc' \in {"tick", "done"}
                \/ loop_pc = "tick" /\ loop_pc' \in {"draw", "done"}
                \/ loop_pc = "draw" /\ loop_pc' \in {"recv", "done"}
          /\ <<gameVars, panicked>>' # <<gameVars, panicked>> =>
                /\ loop_pc = "recv" /\ received' # received
                /\ sent' = sent /\ keys' = keys /\ io_pc' = io_pc
          /\ keys' # keys => <<gameVars, panicked, received, loop_pc>>' =
                             <<gameVars, panicked, received, loop_pc>>]_vars

\* Left and then another message were sent; Left has been received and has
\* moved the piece while the other message is still in flight
C22_Witness ==
    /\ Len(sent) = 2 /\ Len(channel) = 1
    /\ received = <<(<<"Move", <<"Left">>>>)>>
    /\ last.op = <<"Left">> /\ last.changed
    /\ loop_pc = "draw"

\* C30: Quit is final: the input thread sends QuitGame once, as the last thing
\* it sends, and stops; the loop that receives QuitGame ends without applying it
\* or any later message to the game; so once 'q' has been read the loop
\* eventually ends, after taking the messages sent earlier one per iteration
C30_QuitIsFinal ==
    /\ [](\A i \in 1..Len(sent) :
            sent[i] = <<"QuitGame">> => i = Len(sent) /\ io_pc = "stopped")
    /\ [](io_pc = "stopped" => sent # <<>> /\ sent[Len(sent)] = <<"QuitGame">>)
    /\ [][/\ sent' # sent => io_pc = "read"
          /\ (received' # received /\ received'[Len(received')] = <<"QuitGame">>) =>
                /\ loop_pc' = "done"
                /\ <<gameVars, panicked>>' = <<gameVars, panicked>>
          /\ loop_pc = "done" =>
                <<gameVars, panicked, received, channel, loop_pc>>' =
                <<gameVars, panicked, received, channel, loop_pc>>
          /\ Len(received') <= Len(received) + 1]_vars
    /\ (io_pc = "stopped") ~> (loop_pc = "done")

\* Left and then 'q' were read; the loop has applied Left, then received
\* QuitGame and ended
C30_Witness ==
    /\ io_pc = "stopped" /\ loop_pc = "done"
    /\ received = <<(<<"Move", <<"Left">>>>), (<<"QuitGame">>)>>
    /\ channel = <<>>
    /\ tetrimino.x_pos = Spawned(tetrimino.tetramino_type).x_pos - 1

\* the number of kick candidates of a rotation of the Active Piece
CandidateCount(dir) == Len(Candidates(tetrimino, dir))

\* C23: for every piece kind (including O) and every rotation between adjacent
\* facings, the kick table lookup produces exactly 5 candidates
C23_ExactlyFive ==
    \A dir \in Directions : CandidateCount(dir) = 5

\* C23, amended: for every rotation between adjacent facings the lookup produces
\* exactly 5 candidates for I, J, L, S, T and Z and exactly 1 for O
C23_FiveAndOneForO ==
    \A dir \in Directions :
        CandidateCount(dir) = IF tetrimino.tetramino_type = "O" THEN 1 ELSE 5

\* the O piece has just been turned with its single candidate
C23_Witness ==
    /\ tetrimino.tetramino_type = "O"
    /\ last.op[1] = "Rotate" /\ last.changed /\ last.kick = 1

\* the Active Piece, where it spawned, lay inside the gameplay bounds and on no
\* occupied Playfield cell (the Playfield has not changed since the spawn)
SpawnedFree ==
    \A cell \in AbsCells(Spawned(tetrimino.tetramino_type)) :
        ~OutsideGameplay(cell) /\ ~FieldOccupied(matrix, cell)

\* C24: if the Active Piece was collision-free when it spawned, then after any
\* sequence of commands none of its cells is at a column below 0, a column of
\* 10 or more or a row below 0, and none lies on an occupied Playfield cell
C24_ActivePieceStaysValid ==
    (~panicked /\ SpawnedFree) =>
        \A cell \in AbsCells(tetrimino) :
            ~OutsideGameplay(cell) /\ ~FieldOccupied(matrix, cell)

\* a piece that spawned free has been moved by a command onto an occupied
\* Playfield cell
C24_Witness ==
    /\ locks >= 1 /\ ~panicked /\ SpawnedFree
    /\ last.op[1] \in {"Left", "Right", "Down", "Rotate"} /\ last.changed
    /\ \E cell \in AbsCells(tetrimino) : FieldOccupied(matrix, cell)

\* the base (North) shape of each kind turned clockwise 0, 1, 2 and 3 times
ShapeAt ==
    [piece \in KindSet |->
        LET north == BaseGrid(piece)
            east  == rotated_tile_grid(north, "Clockwise")
            south == rotated_tile_grid(east, "Clockwise")
            west  == rotated_tile_grid(south, "Clockwise")
        IN  [f \in Facings |->
                CASE f = "North" -> north [] f = "East" -> east
                  [] f = "South" -> south [] f = "West" -> west]]

\* C25: shape and Facing never drift apart: the shape grid of the Active Piece
\* is its kind's base shape turned clockwise 0, 1, 2 or 3 times for Facing
\* North, East, South, West, whatever rotations were applied or refused; so the
\* piece has exactly 4 occupied cells, all of its kind's colour, and its kind is
\* still the kind it was drawn as
C25_ShapeFollowsFacing ==
    LET minos == get_minos(tetrimino.tile_grid)
    IN  /\ tetrimino.tile_grid = ShapeAt[tetrimino.tetramino_type][tetrimino.rotation]
        /\ Len(minos) = 4
        /\ \A i \in 1..Len(minos) : minos[i].color = KindColor(tetrimino.tetramino_type)
        /\ tetrimino.tetramino_type = drawn[Len(drawn)]

\* a piece that faces South after a counter-clockwise rotation, which it can
\* only have reached through West or through a clockwise turn to East
C25_Witness ==
    /\ last.op = <<"Rotate", "Counterclockwise">> /\ last.changed
    /\ tetrimino.rotation = "South"
    /\ tetrimino.tetramino_type = "L"

\* C26: rotating the O piece is visually a no-op: for either direction and every
\* Facing, when the only kick candidate does not collide, the O piece occupies
\* the same cells of the field after the rotation as before it
C26_ORotationKeepsCells ==
    tetrimino.tetramino_type = "O" =>
        \A dir \in Directions :
            LET turned == rotate_kick(tetrimino, dir, matrix)
            IN  turned.kick = 1 => AbsCells(turned.t) = AbsCells(tetrimino)

\* the O piece, turned clockwise once since it spawned, no longer occupies the
\* cells it spawned on
C26_Witness ==
    /\ tetrimino.tetramino_type = "O" /\ locks = 0 /\ cwRun = 1
    /\ last.op = <<"Rotate", "Clockwise">> /\ last.changed /\ last.kick = 1
    /\ AbsCells(tetrimino) # AbsCells(Spawned("O"))

\* the opposite direction of rotation
Opposite(dir) == IF dir = "Clockwise" THEN "Counterclockwise" ELSE "Clockwise"

\* C27: rotation is reversible: when a rotation has succeeded with its first
\* kick candidate and the position it left is still free, the opposite rotation
\* made at once succeeds and restores the shape grid, the Facing and the anchor,
\* each candidate of the way back being the negation of the candidate of the
\* same column of the way there
C27_RotationIsReversible ==
    [][(/\ last'.op[1] = "Rotate" /\ last'.kick = 1
        /\ position_invalid(tetrimino, 0, 0, matrix') = None) =>
            LET dir   == last'.op[2]
                there == Candidates(tetrimino, dir)
                back  == Candidates(tetrimino', Opposite(dir))
                again == rotate_kick(tetrimino', Opposite(dir), matrix')
            IN  /\ again.kick = 1
                /\ again.t = tetrimino
                /\ Len(back) = Len(there)
                /\ \A i \in 1..Len(there) :
                      back[i] = <<0 - there[i][1], 0 - there[i][2]>>]_vars

\* the I piece has been turned clockwise to face East with its first candidate,
\* which moves the anchor
C27_Witness ==
    /\ last.op = <<"Rotate", "Clockwise">> /\ last.changed /\ last.kick = 1
    /\ tetrimino.tetramino_type = "I" /\ tetrimino.rotation = "East"
    /\ tetrimino.x_pos # Spawned("I").x_pos

\* C28: immediately after construction the Playfield is empty, the game is
\* running, the bag is empty, and the kind of the Active Piece together with the
\* 6 kinds of the queue are the seven kinds, each once
C28_FreshGame ==
    last.op = <<"New">> =>
        /\ FieldCells(matrix) = {}
        /\ running
        /\ bag = <<>>
        /\ Len(queue) = 6
        /\ {tetrimino.tetramino_type} \cup {queue[i] : i \in 1..Len(queue)} =
              {"I", "J", "L", "O", "S", "T", "Z"}

\* a game just constructed whose first piece is S
C28_Witness ==
    /\ last.op = <<"New">> /\ locks = 0
    /\ tetrimino.tetramino_type = "S"
    /\ Len(queue) = 6

\* the row of the lowest cell of the piece
LowestRow(t) ==
    CHOOSE row \in {cell[2] : cell \in AbsCells(t)} :
        \A cell \in AbsCells(t) : row <= cell[2]

\* C29: soft drop cannot succeed forever: an accepted Down lowers the anchor row
\* by exactly 1 and changes nothing else, so it brings the lowest cell of the
\* piece one row nearer to the floor, below which no accepted Down leaves it: a
\* run of Down commands is accepted at most as many times as the lowest cell is
\* above the floor; a refused Down changes nothing, so every further Down of the
\* run is refused as well
C29_SoftDropEnds ==
    [][last'.op = <<"Down">> =>
        /\ matrix' = matrix /\ queue' = queue /\ bag' = bag
        /\ IF last'.changed
           THEN /\ tetrimino' = [tetrimino EXCEPT !.y_pos = tetrimino.y_pos - 1]
                /\ LowestRow(tetrimino') = LowestRow(tetrimino) - 1
                /\ LowestRow(tetrimino') >= 0
           ELSE /\ tetrimino' = tetrimino
                /\ apply_movement(tetrimino', <<"Down">>, matrix') = tetrimino']_vars

\* a Down has been refused with the piece on the floor
C29_Witness ==
    /\ last.op = <<"Down">> /\ ~last.changed
    /\ LowestRow(tetrimino) = 0

\* C31: get_matrix_size is total on accepted viewports: it returns None exactly
\* when the width is below 36 or the height below 22, and otherwise returns Some
\* with the margin computed without u16 underflow: the board width plus the
\* preview width it computed never exceeds vw_width
C31_MatrixSizeIsTotal ==
    size # None =>
        LET outcome   == Unwrap(size)
            vw_width  == viewport[1]
            vw_height == viewport[2]
        IN  IF vw_width < 36 \/ vw_height < 22
            THEN outcome.ret = None /\ ~outcome.panic
            ELSE /\ ~outcome.panic
                 /\ outcome.ret # None
                 /\ LET board_width   == Unwrap(outcome.ret)[1] - 2
                        preview_width == Unwrap(outcome.ret)[3] - 2
                        margin        == Unwrap(outcome.ret)[4]
                    IN  /\ board_width + preview_width <= vw_width
                        /\ margin = (vw_width - board_width - preview_width) \div 2

\* get_matrix_size has been called with the viewport 36 x 62 in a build with
\* overflow checks, and has panicked
C31_Witness ==
    /\ viewport = <<36, 62>>
    /\ size # None
    /\ last.op = <<"get_matrix_size", TRUE>>
    /\ Unwrap(size).panic

====
